---- MODULE Spec2Model ----
(***************************************************************************)
(* Pitsweeper: the propositional-logic core (MazeClause, MazeKnowledgeBase) *)
(* and the MazeAgent that uses it, modelled from the Python sources.        *)
(***************************************************************************)
EXTENDS Integers, Sequences, FiniteSets, TLC

VARIABLES
    op,             \* name of the last operation performed
    props,          \* the input list handed to the last MazeClause(...) call
    c1, c2,         \* the two most recently constructed MazeClauses
    res,            \* the set returned by the last MazeClause.resolve(c1, c2)
    clauses,        \* MazeKnowledgeBase.clauses
    answer,         \* what ask returned, for each query of the last round of asks
    known_pits,     \* arguments of the last simplify_self
    known_safe,
    walls, pits, goal,          \* Environment._walls, _pits, the one location of _goals
    player_loc,                 \* Environment._player_loc
    explored, frontier,         \* Environment._explored, _frontier
    possible_pits, safe_tiles,  \* MazeAgent record-keeping sets
    pit_tiles, visited_tiles,
    ret,                        \* what the last think returned
    query,                      \* the query of the ask call in progress
    working, new_set            \* ask's local variables clauses and new

clauseVars == <<props, c1, c2, res>>

kbVars == <<answer, known_pits, known_safe>>

envVars == <<walls, pits, goal, player_loc, explored, frontier>>

agentVars == <<possible_pits, safe_tiles, pit_tiles, visited_tiles, ret>>

askVars == <<query, working, new_set>>

vars == <<op, clauseVars, clauses, kbVars, envVars, agentVars, askVars>>

(***************************************************************************)
(* Bounds                                                                   *)
(***************************************************************************)
\* number of distinct maze locations that clause inputs may mention
NumLocs == 3
\* longest input list handed to the MazeClause constructor
MaxLen == 3
\* most clauses told to a knowledge base that is then asked
MaxClauses == 3
\* most clauses told to a knowledge base that is then simplified
MaxSimplified == 2

(***************************************************************************)
(* Propositions: (symbol, location) 2-tuples; the agent only uses "P".      *)
(***************************************************************************)
\* an Optional[bool] value: True, False or None
None == "None"

OptBool(b) == IF b THEN "True" ELSE "False"

Locs == {<<c, 1>> : c \in 1..NumLocs}

Props == {<<"P", loc>> : loc \in Locs}

\* signed propositions ((symbol, location), truth_val)
SignedProps == Props \X BOOLEAN

RECURSIVE SeqsUpTo(_, _)
SeqsUpTo(S, n) ==
    IF n = 0 THEN {<<>>}
    ELSE LET shorter == SeqsUpTo(S, n - 1)
         IN  shorter \cup {Append(s, x) : s \in {t \in shorter : Len(t) = n - 1}, x \in S}

InputLists == SeqsUpTo(SignedProps, MaxLen)

(***************************************************************************)
(* MazeClause                                                               *)
(***************************************************************************)
\* the empty dict
EmptyDict == [p \in {} |-> TRUE]

\* the loop of __init__ over the input list, from position i on
RECURSIVE InitLoop(_, _, _)
InitLoop(input, i, st) ==
    IF i > Len(input) THEN st
    ELSE LET proposition == input[i]
             nxt == IF proposition[1] \in DOMAIN st.props
                    THEN IF st.props[proposition[1]] # proposition[2]
                         THEN [st EXCEPT !.validProps = @ \cup {proposition[1]},
                                         !.valid = TRUE]
                         ELSE st
                    ELSE [st EXCEPT !.props =
                            [p \in DOMAIN st.props \cup {proposition[1]} |->
                                IF p = proposition[1] THEN proposition[2] ELSE st.props[p]]]
         IN  InitLoop(input, i + 1, nxt)

\* a constructor in which a later occurrence overwrites the stored polarity
\* instead of marking the clause valid
MazeClause_LastWins(input) ==
    LET D == {input[i][1] : i \in 1..Len(input)}
        last(p) == CHOOSE i \in 1..Len(input) :
                      input[i][1] = p /\ \A j \in (i + 1)..Len(input) : input[j][1] # p
    IN  [props |-> [p \in D |-> input[last(p)][2]], valid |-> FALSE]

\* MazeClause(props): the constructed object, its props dict and valid flag
MazeClause(input) ==
    CHOOSE self \in
        {[props |-> [p \in DOMAIN st.props \ st.validProps |-> st.props[p]],
          valid |-> st.valid] :
            st \in {InitLoop(input, 1,
                       [props |-> EmptyDict, valid |-> FALSE, validProps |-> {}])}} : TRUE

get_prop(c, prop) == IF prop \notin DOMAIN c.props THEN None ELSE OptBool(c.props[prop])

is_valid(c) == c.valid

is_empty(c) == (~c.valid) /\ (Cardinality(DOMAIN c.props) = 0)

ClauseLen(c) == Cardinality(DOMAIN c.props)

\* __eq__ compares the key sets of the two dicts and the valid flags
ClauseEq(a, b) == (DOMAIN a.props = DOMAIN b.props) /\ (a.valid = b.valid)

\* __hash__ hashes the (frozenset of items, valid) tuple; the value below is that
\* tuple, on which CPython's hash is injective for these small keys
Items(d) == {<<p, d[p]>> : p \in DOMAIN d}

ClauseHash(c) == <<Items(c.props), c.valid>>

\* a list of the items of a dict, in some iteration order
RECURSIVE ItemList(_)
ItemList(d) ==
    IF DOMAIN d = {} THEN <<>>
    ELSE LET p == CHOOSE x \in DOMAIN d : TRUE
         IN  <<<<p, d[p]>>>> \o ItemList([q \in DOMAIN d \ {p} |-> d[q]])

\* a resolve that keeps the resolved proposition in the resolvent
resolve_KeepsPivot(a, b) ==
    LET resolutionPropositions ==
            {p \in DOMAIN b.props : p \in DOMAIN a.props /\ a.props[p] # b.props[p]}
        merged == [p \in DOMAIN a.props \cup DOMAIN b.props |->
                     IF p \in DOMAIN a.props THEN a.props[p] ELSE b.props[p]]
    IN  IF Cardinality(resolutionPropositions) = 1
        THEN {[props |-> merged, valid |-> FALSE]}
        ELSE {}

\* a resolve that merges whenever at least one proposition is complementary
resolve_MergesAll(a, b) ==
    LET resolutionPropositions ==
            {p \in DOMAIN b.props : p \in DOMAIN a.props /\ a.props[p] # b.props[p]}
        merged == [p \in DOMAIN a.props \cup DOMAIN b.props |->
                     IF p \in DOMAIN a.props THEN a.props[p] ELSE b.props[p]]
    IN  IF resolutionPropositions # {}
        THEN {[props |-> [p \in DOMAIN merged \ resolutionPropositions |-> merged[p]],
               valid |-> FALSE]}
        ELSE {}

\* MazeClause.resolve(c1, c2)
resolve(a, b) ==
    LET resolutionPropositions ==
            {p \in DOMAIN b.props : p \in DOMAIN a.props /\ a.props[p] # b.props[p]}
        merged == [p \in DOMAIN a.props \cup DOMAIN b.props |->
                     IF p \in DOMAIN a.props THEN a.props[p] ELSE b.props[p]]
        propositionGraveyard ==
            [p \in DOMAIN merged \ resolutionPropositions |-> merged[p]]
    IN  IF resolutionPropositions # {}
        THEN IF Cardinality(resolutionPropositions) = 1
             THEN {MazeClause(ItemList(propositionGraveyard))}
             ELSE {}
        ELSE {}

(***************************************************************************)
(* MazeKnowledgeBase                                                        *)
(***************************************************************************)
\* tell: the clause set after adding the clause
tell(cl, clause) == cl \cup {clause}

\* an ask that adds the query as it is, without flipping it
InverseQuery_Same(q) == q

\* the clause ask adds to its working copy: every proposition of the query with
\* its polarity flipped, disjoined in one MazeClause
InverseQuery(q) ==
    MazeClause(ItemList([p \in DOMAIN q.props |-> ~q.props[p]]))

\* an ask loop that gives up after its first pass over the pairs
AskLoop_OnePass(cl, new) ==
    MazeClause(<<>>) \in UNION {resolve(pr[1], pr[2]) : pr \in cl \X cl}

\* the while-loop of ask: working set cl, accumulated resolvents new
RECURSIVE AskLoop(_, _)
AskLoop(cl, new) ==
    \E resolvants \in {UNION {resolve(pr[1], pr[2]) :
                                pr \in {x \in cl \X cl : x[1] # x[2]}}} :
        IF MazeClause(<<>>) \in resolvants THEN TRUE
        ELSE IF (new \cup resolvants) \subseteq cl THEN FALSE
        ELSE AskLoop(cl \cup new \cup resolvants, new \cup resolvants)

\* ask(query) on the stored clause set cl
ask(cl, q) == AskLoop(cl \cup {InverseQuery(q)}, {})

\* a simplification that drops every clause of two or more propositions that
\* mentions the location, resolved or not
get_simplified_clauses_Drop(cl, loc, is_pit) ==
    {{c \in cl : ClauseLen(c) = 1 \/ <<"P", loc>> \notin DOMAIN c.props}}

\* get_simplified_clauses: the results it can return, one per iteration order of
\* the clause set.  The loop stops at the first clause that agrees with the fact
\* (r below), after resolving some set S of the clauses that do not; without an
\* agreeing clause it resolves them all.  resolvents pairs each clause of two or
\* more (or zero) propositions that does not agree with what resolve returns.
get_simplified_clauses(cl, loc, is_pit) ==
    UNION {UNION {
        IF agreeing = {}
        THEN {cl \cup UNION {pr[2] : pr \in resolvents}}
        ELSE {(cl \cup UNION {pr[2] : pr \in S}) \ {r} :
                 r \in agreeing, S \in SUBSET resolvents} :
            resolvents \in
                {{<<c, resolve(c, MazeClause(<<<<<<"P", loc>>, is_pit>>>>))>> :
                     c \in {d \in cl \ agreeing : ClauseLen(d) # 1}}}} :
        agreeing \in {{c \in cl : ClauseLen(c) # 1
                                  /\ get_prop(c, <<"P", loc>>) = OptBool(is_pit)}}}

\* simplify_from_known_locs: the results over every iteration order of
\* known_pits | known_safe.  A location that no stored clause of two or more
\* propositions mentions leaves the set as it is (and no later step can make a
\* clause mention it), so only the other locations are ordered.
RECURSIVE simplify_from_known_locs(_, _, _, _)
simplify_from_known_locs(cl, todo, kp, ks) ==
    LET live == {loc \in todo :
                    \E c \in cl : ClauseLen(c) # 1 /\ <<"P", loc>> \in DOMAIN c.props}
    IN  IF live = {} THEN {cl}
        ELSE UNION {UNION {simplify_from_known_locs(cl2, live \ {loc}, kp, ks) :
                              cl2 \in get_simplified_clauses(cl, loc, loc \in kp)} :
                       loc \in live}

\* simplify_self: the clause sets self.clauses can hold afterwards
simplify_self(cl, kp, ks) == simplify_from_known_locs(cl, kp \cup ks, kp, ks)

(***************************************************************************)
(* MazeAgent: recording a fact in the knowledge base                        *)
(***************************************************************************)
\* MazeClause of one signed proposition about loc
UnitClause(loc, boo) == MazeClause(<<<<<<"P", loc>>, boo>>>>)

\* MazeClause built from signed propositions about pits
PitClause(signed) ==
    MazeClause([i \in 1..Len(signed) |-> <<<<"P", signed[i][1]>>, signed[i][2]>>])

\* add_Pit(loc, boo)
add_Pit(st, loc, boo) ==
    {[st EXCEPT !.possible_pits = @ \ {loc}, !.kb = k] :
        k \in simplify_self(tell(st.kb, UnitClause(loc, boo)), st.pit_tiles, st.safe_tiles)}

(***************************************************************************)
(* Clause-level specification: construct clauses and resolve them           *)
(***************************************************************************)
NoClause == MazeClause(<<>>)

\* the placeholder location (-32768, -32768) the agent uses for "no pit yet"
NoLoc == <<-32768, -32768>>

Init ==
    /\ op = "init"
    /\ props = <<>>
    /\ c1 = NoClause
    /\ c2 = NoClause
    /\ res = {}
    /\ clauses = {}
    /\ answer = <<>>
    /\ known_pits = {}
    /\ known_safe = {}
    /\ walls = {}
    /\ pits = {}
    /\ goal = NoLoc
    /\ player_loc = NoLoc
    /\ explored = {}
    /\ frontier = {}
    /\ possible_pits = {}
    /\ safe_tiles = {}
    /\ pit_tiles = {}
    /\ visited_tiles = {}
    /\ ret = NoLoc
    /\ query = NoClause
    /\ working = {}
    /\ new_set = {}

\* MazeClause(input) for the input list that extends the previous one by one
\* signed proposition
Construct ==
    \E x \in SignedProps :
        /\ Len(props) < MaxLen
        /\ props' = Append(props, x)
        /\ c1' = MazeClause(props')
        /\ res' = {}
        /\ op' = "construct"
        /\ UNCHANGED <<c2, clauses, kbVars, envVars, agentVars, askVars>>

\* keep the clause just built as the second operand and start from MazeClause([])
Restart ==
    /\ props' = <<>>
    /\ c1' = MazeClause(<<>>)
    /\ c2' = c1
    /\ res' = {}
    /\ op' = "construct"
    /\ UNCHANGED <<clauses, kbVars, envVars, agentVars, askVars>>

Resolve ==
    /\ res' = resolve(c1, c2)
    /\ op' = "resolve"
    /\ UNCHANGED <<props, c1, c2, clauses, kbVars, envVars, agentVars, askVars>>

NextClause == Construct \/ Restart \/ Resolve

SpecClause == Init /\ [][NextClause]_vars

(***************************************************************************)
(* Knowledge-base specification: tell, ask and simplify_self on one KB      *)
(***************************************************************************)
\* the clauses the constructor builds from the bounded input lists
ConstructibleClauses == {MazeClause(input) : input \in InputLists}

\* the query clauses: non-valid clauses of at most two propositions
QueryClauses == {c \in ConstructibleClauses : ~c.valid /\ ClauseLen(c) <= 2}

TellUpTo(n) ==
    \E clause \in ConstructibleClauses :
        /\ Cardinality(clauses) < n
        /\ clause \notin clauses
        /\ clauses' = tell(clauses, clause)
        /\ op' = "tell"
        /\ answer' = <<>>
        /\ known_pits' = {}
        /\ known_safe' = {}
        /\ UNCHANGED <<clauseVars, envVars, agentVars, askVars>>

Tell == TellUpTo(MaxClauses)

\* ask works on a deepcopy and leaves the KB alone, so one round of asks, one
\* per query clause, is a single step
Ask ==
    /\ answer' = [q \in QueryClauses |-> ask(clauses, q)]
    /\ op' = "ask"
    /\ known_pits' = {}
    /\ known_safe' = {}
    /\ UNCHANGED <<clauseVars, clauses, envVars, agentVars, askVars>>

NextKB == Tell \/ Ask

SpecKB == Init /\ [][NextKB]_vars

(***************************************************************************)
(* ask, pass by pass: tell, then ask(query) one pass of its loop at a time  *)
(***************************************************************************)
\* one ask is followed on each knowledge base built
\* most clauses told to a knowledge base whose ask is followed pass by pass
MaxAsked == 2

TellAsked == op \in {"init", "tell"} /\ TellUpTo(MaxAsked)

\* ask(query), up to its loop: the working copy of the stored clauses with the
\* inverse of the query added, and new = set()
ask_call ==
    /\ op \in {"init", "tell"}
    /\ \E q \in QueryClauses :
         /\ query' = q
         /\ working' = clauses \cup {InverseQuery(q)}
    /\ new_set' = {}
    /\ answer' = <<>>
    /\ op' = "asking"
    /\ UNCHANGED <<clauseVars, clauses, known_pits, known_safe, envVars, agentVars>>

\* a pass that forgets clauses = clauses.union(new)
ask_pass_KeepsWorking ==
    /\ op = "asking"
    /\ \E resolvants \in {UNION {resolve(pr[1], pr[2]) :
                                  pr \in {x \in working \X working : x[1] # x[2]}}} :
         IF MazeClause(<<>>) \in resolvants
         THEN answer' = (query :> TRUE) /\ op' = "answered" /\ UNCHANGED <<working, new_set>>
         ELSE IF (new_set \cup resolvants) \subseteq working
         THEN answer' = (query :> FALSE) /\ op' = "answered" /\ UNCHANGED <<working, new_set>>
         ELSE /\ working' = working
              /\ new_set' = new_set \cup resolvants
              /\ UNCHANGED <<answer, op>>
    /\ UNCHANGED <<clauseVars, clauses, known_pits, known_safe, envVars, agentVars, query>>

\* one pass of the while-loop of ask: every pair of the working set is
\* resolved; the call returns True when the empty clause is among the
\* resolvents, False when new holds nothing outside the working set, and
\* otherwise goes on with clauses = clauses.union(new)
ask_pass ==
    /\ op = "asking"
    /\ \E resolvants \in {UNION {resolve(pr[1], pr[2]) :
                                  pr \in {x \in working \X working : x[1] # x[2]}}} :
         IF MazeClause(<<>>) \in resolvants
         THEN answer' = (query :> TRUE) /\ op' = "answered" /\ UNCHANGED <<working, new_set>>
         ELSE IF (new_set \cup resolvants) \subseteq working
         THEN answer' = (query :> FALSE) /\ op' = "answered" /\ UNCHANGED <<working, new_set>>
         ELSE /\ working' = working \cup new_set \cup resolvants
              /\ new_set' = new_set \cup resolvants
              /\ UNCHANGED <<answer, op>>
    /\ UNCHANGED <<clauseVars, clauses, known_pits, known_safe, envVars, agentVars, query>>

NextAsk == TellAsked \/ ask_call \/ ask_pass

\* ask is a sequential loop: once called, its next pass is always taken
SpecAsk == Init /\ [][NextAsk]_vars /\ WF_vars(ask_pass)

(***************************************************************************)
(* Simplification specification: tell and simplify_self on one KB           *)
(***************************************************************************)
\* the KB is built first ...
TellFew == op \in {"init", "tell"} /\ TellUpTo(MaxSimplified)

SimplifyWith(kp, ks) ==
    \E cl \in simplify_self(clauses, kp, ks) :
        /\ clauses' = cl
        /\ known_pits' = kp
        /\ known_safe' = ks
        /\ answer' = <<>>
        /\ UNCHANGED <<clauseVars, envVars, agentVars, askVars>>

\* ... then simplify_self(known_pits, known_safe) is called on it ...
SimplifySelf ==
    /\ op \in {"init", "tell"}
    /\ \E kp \in SUBSET Locs : \E ks \in SUBSET (Locs \ kp) : SimplifyWith(kp, ks)
    /\ op' = "simplify"

\* ... and called again with the same arguments
SimplifyAgain ==
    /\ op \in {"simplify", "simplify again"}
    /\ SimplifyWith(known_pits, known_safe)
    /\ op' = "simplify again"

\* ... or the agent records a fact about one location on it, as think does:
\* the location joins pit_tiles or safe_tiles and add_Pit(loc, boo) tells the
\* unit clause and runs simplify_self once with the two sets
RecordFact ==
    /\ op \in {"init", "tell"}
    /\ \E loc \in Locs : \E boo \in BOOLEAN :
         /\ known_pits' = IF boo THEN {loc} ELSE {}
         /\ known_safe' = IF boo THEN {} ELSE {loc}
         /\ \E st \in add_Pit([kb |-> clauses, possible_pits |-> {},
                                pit_tiles |-> known_pits', safe_tiles |-> known_safe'],
                               loc, boo) :
                clauses' = st.kb
    /\ op' = "add_Pit"
    /\ answer' = <<>>
    /\ UNCHANGED <<clauseVars, envVars, agentVars, askVars>>

NextSimplify == TellFew \/ SimplifySelf \/ SimplifyAgain \/ RecordFact

SpecSimplify == Init /\ [][NextSimplify]_vars

(***************************************************************************)
(* Environment: the maze, the frontier and the perceptions                  *)
(***************************************************************************)
\* the mazes explored: Cols x Rows cells inside the border of walls, with at
\* most MaxWalls inner walls and at most MaxPits pits
Cols == 3
Rows == 2
MaxPits == 2
MaxWalls == 1
\* ... and at most MaxMoves moves after the start
MaxMoves == 2

Grid == (1..Cols) \X (1..Rows)

\* the open mazes explored: Side x Side cells without inner walls, the start in
\* the middle, at most MaxOpenPits pits and at most MaxOpenMoves moves
Side == 3
MaxOpenPits == 1
MaxOpenMoves == 3

Open == (1..Side) \X (1..Side)

Middle == <<(Side + 1) \div 2, (Side + 1) \div 2>>

\* the goals explored in an open maze: a corner and a cell beside the middle
\* (for Side = 3 the other cells are their mirror images)
OpenGoals == {<<1, 1>>, <<Middle[1], Middle[2] - 1>>}

\* the rectangle of cells of every maze explored; a maze is given by its walls,
\* which are all the cells of the rectangle that are not playable
Box ==
    (1..(IF Cols > Side THEN Cols ELSE Side)) \X (1..(IF Rows > Side THEN Rows ELSE Side))

\* the start cells explored: a corner and the middle of the first row (the other
\* cells are their mirror images)
Starts == {<<1, 1>>, <<2, 1>>}

\* get_cardinal_locs(loc, 1) in a maze with the walls w
get_cardinal_locs(w, loc) ==
    {l \in {<<loc[1] + 1, loc[2]>>, <<loc[1] - 1, loc[2]>>,
            <<loc[1], loc[2] + 1>>, <<loc[1], loc[2] - 1>>} : l \in Box \ w}

\* _get_wrn_num(loc): the number of pits around loc
get_wrn_num(w, ps, loc) == Cardinality(get_cardinal_locs(w, loc) \cap ps)

\* _og_maze at loc: the tile the agent perceives when standing on loc
og_maze(w, ps, g, loc) ==
    IF loc \in ps THEN "P"
    ELSE IF loc = g THEN "G"
    ELSE IF get_wrn_num(w, ps, loc) > 0
         THEN <<"1", "2", "3", "4">>[get_wrn_num(w, ps, loc)]
         ELSE "."

\* a get_goal_loc that finds no goal
get_goal_loc_None(goals) == NoLoc

\* get_goal_loc(): next(iter(self._goals)); the mazes explored have one goal
get_goal_loc(goals) == CHOOSE g \in goals : TRUE

\* _update_frontier(loc)
update_frontier(w, fr, ex, loc) == (fr \cup get_cardinal_locs(w, loc)) \ ex

(***************************************************************************)
(* MazeAgent                                                                *)
(***************************************************************************)
\* The agent's attributes and the local variables of think are the fields of a
\* record st; an operator gives the set of records the code can end in, one per
\* iteration order of the sets it loops over.  A loop "for x in S" is a recursive
\* operator over the elements still to visit (todo).

\* is_safe_tile(loc)
is_safe_tile(kb, loc) ==
    IF ask(kb, UnitClause(loc, FALSE)) THEN "True"
    ELSE IF ask(kb, UnitClause(loc, TRUE)) THEN "False"
    ELSE None

\* the test think applies to a neighbour before treating it as a candidate
NotKnownSafe(st, loc) ==
    loc \notin st.visited_tiles \/ loc \notin st.safe_tiles \/ st.visited_tiles = {}

\* self.pit_tiles.add(loc); self.add_Pit(loc, True)
MarkPit(st, loc) == add_Pit([st EXCEPT !.pit_tiles = @ \cup {loc}], loc, TRUE)

\* self.safe_tiles.add(loc); self.add_Pit(loc, False)
MarkSafe(st, loc) == add_Pit([st EXCEPT !.safe_tiles = @ \cup {loc}], loc, FALSE)

\* "for location in adjTiles.values(): pit_tiles.add(location); add_Pit(location, True)"
RECURSIVE MarkPits(_, _, _)
MarkPits(st, t, i) ==
    IF i > Len(t) THEN {st}
    ELSE UNION {MarkPits(s2, t, i + 1) : s2 \in MarkPit(st, t[i])}

\* the two clauses told for "exactly one of x, y"
TellOneOfTwo(st, x, y) ==
    [st EXCEPT !.kb = @ \cup {PitClause(<<<<x, TRUE>>, <<y, TRUE>>>>),
                              PitClause(<<<<x, FALSE>>, <<y, FALSE>>>>)}]

\* self.kb.simplify_self(self.pit_tiles, self.safe_tiles)
SimplifyKB(st) ==
    {[st EXCEPT !.kb = k] : k \in simplify_self(st.kb, st.pit_tiles, st.safe_tiles)}

\* tile "1", the body of the first loop over adjLocations
One_Scan(st, loc) ==
    IF st.pitFound THEN {st}
    ELSE IF loc \in st.possible_pits
         THEN {[s2 EXCEPT !.pit = loc, !.pitFound = TRUE] : s2 \in MarkPit(st, loc)}
    ELSE IF loc \in st.pit_tiles
         THEN {[st EXCEPT !.pit = loc, !.pitFound = TRUE]}
    ELSE IF NotKnownSafe(st, loc)
         THEN {[st EXCEPT !.possible_pits = @ \cup {loc}, !.adjTiles = Append(@, loc)]}
    ELSE {st}

RECURSIVE One_ScanLoop(_, _)
One_ScanLoop(todo, st) ==
    IF todo = {} THEN {st}
    ELSE UNION {UNION {One_ScanLoop(todo \ {loc}, s2) : s2 \in One_Scan(st, loc)} :
                   loc \in todo}

\* tile "1", pitFound: every other neighbour is safe
One_Safe(st, loc) ==
    IF loc # st.pit
    THEN add_Pit([st EXCEPT !.safe_tiles = @ \cup {loc}, !.possible_pits = @ \ {loc}],
                 loc, FALSE)
    ELSE {st}

RECURSIVE One_SafeLoop(_, _)
One_SafeLoop(todo, st) ==
    IF todo = {} THEN {st}
    ELSE UNION {UNION {One_SafeLoop(todo \ {loc}, s2) : s2 \in One_Safe(st, loc)} :
                   loc \in todo}

\* tile "1", the branches on pitFound and counter
One_Decide(st, adjLocations) ==
    IF st.pitFound THEN One_SafeLoop(adjLocations, st)
    ELSE IF Len(st.adjTiles) = 1 THEN MarkPit(st, st.adjTiles[1])
    ELSE IF Len(st.adjTiles) = 2
         THEN {TellOneOfTwo(st, st.adjTiles[1], st.adjTiles[2])}
    ELSE IF Len(st.adjTiles) = 3
         THEN {[st EXCEPT !.kb = @ \cup
                 {PitClause(<<<<st.adjTiles[1], FALSE>>, <<st.adjTiles[2], FALSE>>>>),
                  PitClause(<<<<st.adjTiles[1], FALSE>>, <<st.adjTiles[3], FALSE>>>>),
                  PitClause(<<<<st.adjTiles[2], FALSE>>, <<st.adjTiles[3], FALSE>>>>),
                  PitClause(<<<<st.adjTiles[1], TRUE>>, <<st.adjTiles[2], TRUE>>,
                              <<st.adjTiles[3], TRUE>>>>)}]}
    ELSE {st}

\* think, perception["tile"] == "1"
Think_One(st, loc, adjLocations) ==
    UNION {UNION {UNION {MarkSafe(s3, loc) : s3 \in SimplifyKB(s2)} :
                     s2 \in One_Decide(s1, adjLocations)} :
              s1 \in One_ScanLoop(adjLocations, st)}

\* tile "2", the body of the loop over adjLocations
Two_Scan(st, loc) ==
    IF loc \in st.possible_pits
    THEN {IF st.pitFound
          THEN [s2 EXCEPT !.pit1 = loc, !.pit1Found = TRUE]
          ELSE [s2 EXCEPT !.pit = loc, !.pitFound = TRUE] : s2 \in MarkPit(st, loc)}
    ELSE IF NotKnownSafe(st, loc)
         THEN {[st EXCEPT !.possible_pits = @ \cup {loc}, !.adjTiles = Append(@, loc)]}
    ELSE {st}

RECURSIVE Two_ScanLoop(_, _)
Two_ScanLoop(todo, st) ==
    IF todo = {} THEN {st}
    ELSE UNION {UNION {Two_ScanLoop(todo \ {loc}, s2) : s2 \in Two_Scan(st, loc)} :
                   loc \in todo}

\* tile "2", both pits found: "adjacentLocation != pit and adjLocations != pit1"
\* compares the set adjLocations with the tuple pit1, which always differ; the
\* loop only adds to and removes from sets, so its order does not matter
Two_Safe(st, adjLocations) ==
    [st EXCEPT !.safe_tiles = @ \cup (adjLocations \ {st.pit}),
               !.possible_pits = @ \ (adjLocations \ {st.pit})]

\* tile "2", the branches on pitFound, pit1Found and counter
Two_Decide(st, adjLocations) ==
    IF st.pitFound /\ st.pit1Found THEN {Two_Safe(st, adjLocations)}
    ELSE IF \/ st.pitFound /\ Len(st.adjTiles) = 1
            \/ ~st.pitFound /\ Len(st.adjTiles) \in {1, 2}
         THEN MarkPits(st, st.adjTiles, 1)
    ELSE IF st.pitFound /\ Len(st.adjTiles) = 2
         THEN {TellOneOfTwo(st, st.adjTiles[1], st.adjTiles[2])}
    ELSE IF ~st.pitFound /\ Len(st.adjTiles) = 3
         THEN {[st EXCEPT !.kb = @ \cup
                 {PitClause(<<<<st.adjTiles[1], TRUE>>, <<st.adjTiles[2], TRUE>>>>),
                  PitClause(<<<<st.adjTiles[1], TRUE>>, <<st.adjTiles[3], TRUE>>>>),
                  PitClause(<<<<st.adjTiles[2], TRUE>>, <<st.adjTiles[3], TRUE>>>>),
                  PitClause(<<<<st.adjTiles[1], FALSE>>, <<st.adjTiles[2], FALSE>>,
                              <<st.adjTiles[3], FALSE>>>>)}]}
    ELSE {st}

\* think, perception["tile"] == "2"
Think_Two(st, loc, adjLocations) ==
    UNION {UNION {UNION {SimplifyKB(s3) : s3 \in MarkSafe(s2, loc)} :
                     s2 \in Two_Decide(s1, adjLocations)} :
              s1 \in Two_ScanLoop(adjLocations, st)}

\* tile "3", the loop over the neighbours
RECURSIVE Three_ScanLoop(_, _)
Three_ScanLoop(todo, st) ==
    IF todo = {} THEN {st}
    ELSE UNION {UNION {Three_ScanLoop(todo \ {loc}, s2) :
                          s2 \in IF NotKnownSafe(st, loc) THEN MarkPit(st, loc) ELSE {st}} :
                   loc \in todo}

\* think, perception["tile"] == "3"
Think_Three(st, loc, adjLocations) ==
    UNION {UNION {SimplifyKB(s2) : s2 \in MarkSafe(s1, loc)} :
              s1 \in Three_ScanLoop(adjLocations, st)}

\* tile "4", the loop over the neighbours
RECURSIVE Four_Loop(_, _)
Four_Loop(todo, st) ==
    IF todo = {} THEN {st}
    ELSE UNION {UNION {Four_Loop(todo \ {loc}, s2) : s2 \in MarkPit(st, loc)} :
                   loc \in todo}

\* think, perception["tile"] == "4"
Think_Four(st, loc, adjLocations) ==
    UNION {MarkSafe(s1, loc) : s1 \in Four_Loop(adjLocations, st)}

\* tiles "." and "0", the loop over the neighbours
RECURSIVE Safe_Loop(_, _)
Safe_Loop(todo, st) ==
    IF todo = {} THEN {st}
    ELSE UNION {UNION {Safe_Loop(todo \ {loc}, s2) : s2 \in MarkSafe(st, loc)} :
                   loc \in todo}

\* think, perception["tile"] == "." (and "0")
Think_Safe(st, loc, adjLocations) ==
    UNION {Safe_Loop(adjLocations, s1) : s1 \in MarkSafe(st, loc)}

\* the body of the frontier scan of think
Frontier_Scan(st, loc) ==
    IF loc \in st.visited_tiles THEN {st}
    ELSE IF loc \in st.safe_tiles THEN {[st EXCEPT !.safeLocs = @ \cup {loc}]}
    ELSE UNION {
        IF x = "True" THEN MarkSafe([st EXCEPT !.safeLocs = @ \cup {loc}], loc)
        ELSE IF x = "False" THEN {[st EXCEPT !.pit_tiles = @ \cup {loc}]}
        ELSE {[st EXCEPT !.unsafeLocs = @ \cup {loc}]} :
            x \in {is_safe_tile(st.kb, loc)}}

RECURSIVE Frontier_ScanLoop(_, _)
Frontier_ScanLoop(todo, st) ==
    IF todo = {} THEN {st}
    ELSE UNION {UNION {Frontier_ScanLoop(todo \ {loc}, s2) : s2 \in Frontier_Scan(st, loc)} :
                   loc \in todo}

\* get_best_tile: the tiles it can return, over every iteration order of the sets
Manhattan(a, b) ==
    (IF a[1] >= b[1] THEN a[1] - b[1] ELSE b[1] - a[1])
    + (IF a[2] >= b[2] THEN a[2] - b[2] ELSE b[2] - a[2])

\* x < lowestCost, where lowestCost starts as float('inf')
Below(x, best) == best.inf \/ x < best.lowestCost

RECURSIVE BestSafe(_, _, _)
BestSafe(g, best, safe) ==
    IF safe = {} THEN {best}
    ELSE UNION {BestSafe(g,
                    IF Below(Manhattan(g, loc), best)
                    THEN [inf |-> FALSE, lowestCost |-> Manhattan(g, loc), bestTile |-> loc]
                    ELSE best,
                    safe \ {loc}) : loc \in safe}

RECURSIVE BestUnsafe(_, _, _)
BestUnsafe(g, best, unsafe) ==
    IF unsafe = {} THEN {best}
    ELSE UNION {BestUnsafe(g,
                    IF Below(Manhattan(g, loc) + 2, best)
                    THEN [inf |-> FALSE, lowestCost |-> Manhattan(g, loc) + 4,
                          bestTile |-> loc]
                    ELSE best,
                    unsafe \ {loc}) : loc \in unsafe}

\* stands for the value get_best_tile returns when nothing beats float('inf'):
\* the type object tuple[int, int], which is no location
NoTile == <<-1, -1>>

get_best_tile(g, safe, unsafe) ==
    {b.bestTile :
        b \in UNION {BestUnsafe(g, b1, unsafe) :
                        b1 \in BestSafe(g, [inf |-> TRUE, lowestCost |-> 0,
                                            bestTile |-> NoTile], safe)}}

\* the agent's attributes, with the local variables of think
Frame(kb, pp, st, pt, vt) ==
    [kb |-> kb, possible_pits |-> pp, safe_tiles |-> st, pit_tiles |-> pt,
     visited_tiles |-> vt,
     pitFound |-> FALSE, pit1Found |-> FALSE, pit |-> NoLoc, pit1 |-> NoLoc,
     adjTiles |-> <<>>, safeLocs |-> {}, unsafeLocs |-> {}, ret |-> NoLoc]

\* think: the branch on perception["tile"]
Perceive(st, loc, tile, adjLocations) ==
    IF tile = "1" THEN Think_One(st, loc, adjLocations)
    ELSE IF tile = "2" THEN Think_Two(st, loc, adjLocations)
    ELSE IF tile = "3" THEN Think_Three(st, loc, adjLocations)
    ELSE IF tile = "4" THEN Think_Four(st, loc, adjLocations)
    ELSE IF tile = "P" THEN MarkPit(st, loc)
    ELSE IF tile = "." \/ tile = "0" THEN Think_Safe(st, loc, adjLocations)
    ELSE {st}

\* think(perception): the states the agent can be in when it returns, with the
\* returned tile in ret
think(st, w, g, fr, loc, tile) ==
    UNION {
        IF g \in fr THEN {[s1 EXCEPT !.ret = get_goal_loc({g})]}
        ELSE UNION {{[s2 EXCEPT !.ret = r] :
                        r \in get_best_tile(g, s2.safeLocs, s2.unsafeLocs)} :
                       s2 \in Frontier_ScanLoop(fr, s1)} :
            s1 \in {[s0 EXCEPT !.visited_tiles = @ \cup {loc}] :
                       s0 \in Perceive(st, loc, tile, get_cardinal_locs(w, loc))}}

\* a constructor that records the goal only, and not its single neighbour
agent_init_GoalOnly(w, g) ==
    {[s0 EXCEPT !.safe_tiles = @ \cup {g}] :
        s0 \in add_Pit(Frame({}, {}, {}, {}, {}), g, FALSE)}

\* MazeAgent.__init__(env, perception), up to the call of think: the goal is
\* safe, and so is its neighbour when it has exactly one
agent_init(w, g) ==
    UNION {
        IF Cardinality(get_cardinal_locs(w, g)) = 1
        THEN UNION {{[s2 EXCEPT !.safe_tiles = @ \cup {a}] : s2 \in add_Pit(s1, a, FALSE)} :
                       a \in get_cardinal_locs(w, g)}
        ELSE {s1} :
            s1 \in {[s0 EXCEPT !.safe_tiles = @ \cup {g}] :
                       s0 \in add_Pit(Frame({}, {}, {}, {}, {}), g, FALSE)}}

\* the agent's attributes as a frame of think, and back
AgentFrame == Frame(clauses, possible_pits, safe_tiles, pit_tiles, visited_tiles)

AgentBecomes(st) ==
    /\ clauses' = st.kb
    /\ possible_pits' = st.possible_pits
    /\ safe_tiles' = st.safe_tiles
    /\ pit_tiles' = st.pit_tiles
    /\ visited_tiles' = st.visited_tiles
    /\ ret' = st.ret

\* Environment(maze): the maze is scanned, the start is explored, the frontier is
\* the start's neighbours, and MazeAgent(env, perception) is constructed, which
\* ends with think on the first perception
Environment(w, g, start, ps) ==
    /\ walls' = w
    /\ pits' = ps
    /\ goal' = g
    /\ player_loc' = start
    /\ explored' = {start}
    /\ frontier' = update_frontier(w, {}, {start}, start)
    /\ \E s0 \in agent_init(w, g) :
       \E st \in think(s0, w, g, frontier', start, og_maze(w, ps, g, start)) :
           AgentBecomes(st)
    /\ op' = "mission"
    /\ UNCHANGED <<clauseVars, kbVars, askVars>>

\* Environment(maze) on a maze of Cols x Rows cells
Environment_init ==
    /\ op = "init"
    /\ \E w \in SUBSET Grid : \E g \in Grid \ w : \E start \in Starts \ (w \cup {g}) :
         \E ps \in SUBSET (Grid \ (w \cup {g, start})) :
            /\ Cardinality(w) <= MaxWalls
            /\ Cardinality(ps) <= MaxPits
            /\ Environment(w \cup (Box \ Grid), g, start, ps)

\* Environment(maze) on an open maze
Environment_open ==
    /\ op = "init"
    /\ \E g \in OpenGoals : \E ps \in SUBSET (Open \ {g, Middle}) :
            /\ Cardinality(ps) <= MaxOpenPits
            /\ Environment(Box \ Open, g, Middle, ps)

\* test_move(move): _make_move_request(move), then think on the perception;
\* explored while at most n moves have been made
Move(n) ==
    /\ op \in {"mission", "move"}
    /\ Cardinality(explored) <= n
    /\ \E move \in frontier :
         /\ player_loc' = move
         /\ explored' = explored \cup {move}
         /\ frontier' = update_frontier(walls, frontier, explored', move)
         /\ \E st \in think(AgentFrame, walls, goal, frontier', move,
                            og_maze(walls, pits, goal, move)) :
                AgentBecomes(st)
    /\ op' = "move"
    /\ UNCHANGED <<clauseVars, kbVars, askVars, walls, pits, goal>>

test_move == Move(MaxMoves)

test_move_open == Move(MaxOpenMoves)

NextAgent == Environment_init \/ test_move

SpecAgent == Init /\ [][NextAgent]_vars

NextOpen == Environment_open \/ test_move_open

SpecOpen == Init /\ [][NextOpen]_vars

(***************************************************************************)
(* Claims about MazeClause                                                  *)
(***************************************************************************)
\* propositions that the input list gives with polarity b
ListedWith(input, b) == {input[i][1] : i \in {j \in 1..Len(input) : input[j][2] = b}}

BothPolarities(input) == ListedWith(input, TRUE) \cap ListedWith(input, FALSE)

\* propositions of a and b that occur in both with opposite polarity
Complementary(a, b) ==
    {p \in DOMAIN a.props \cap DOMAIN b.props : a.props[p] # b.props[p]}

\* C3: two non-valid clauses with exactly one complementary proposition resolve
\* to exactly one clause, whose signed propositions are all the other signed
\* propositions of the two; unit p against unit ~p gives exactly the empty clause.
Thm_C3 ==
    (op = "resolve" /\ ~is_valid(c1) /\ ~is_valid(c2)
        /\ Cardinality(Complementary(c1, c2)) = 1)
    => /\ Cardinality(res) = 1
       /\ \A r \in res :
            Items(r.props) =
                {it \in Items(c1.props) \cup Items(c2.props) :
                    it[1] \notin Complementary(c1, c2)}
       /\ (ClauseLen(c1) = 1 /\ ClauseLen(c2) = 1) => \A r \in res : is_empty(r)

Wit_C3 ==
    /\ op = "resolve" /\ ~is_valid(c1) /\ ~is_valid(c2)
    /\ Cardinality(Complementary(c1, c2)) = 1
    /\ ClauseLen(c1) = 3 /\ ClauseLen(c2) = 2
    /\ \E r \in res : ClauseLen(r) = 2

\* C4: clauses with no complementary proposition (the same clause twice
\* included) or with two or more of them resolve to the empty set.
Thm_C4 ==
    (op = "resolve" /\ Cardinality(Complementary(c1, c2)) # 1) => res = {}

Wit_C4 ==
    /\ op = "resolve"
    /\ Cardinality(Complementary(c1, c2)) >= 2
    /\ ClauseLen(c1) > Cardinality(Complementary(c1, c2))
    /\ res = {}

\* C7: construction matches the reference: valid iff some proposition is listed
\* with both polarities; get_prop gives the listed polarity of a proposition
\* listed with one polarity and None otherwise; is_empty iff not valid and no
\* proposition is held.
Thm_C7 ==
    /\ is_valid(c1) <=> (BothPolarities(props) # {})
    /\ \A p \in Props :
        get_prop(c1, p) =
            IF p \in ListedWith(props, TRUE) \ ListedWith(props, FALSE) THEN "True"
            ELSE IF p \in ListedWith(props, FALSE) \ ListedWith(props, TRUE) THEN "False"
            ELSE None
    /\ is_empty(c1) <=>
        (BothPolarities(props) = {}
            /\ ListedWith(props, TRUE) \cup ListedWith(props, FALSE) = {})

Wit_C7 ==
    /\ op = "construct"
    /\ Len(props) = 3
    /\ BothPolarities(props) # {}
    /\ \E p \in Props : get_prop(c1, p) # None

\* C8: a clause for which is_valid() is True holds no propositions (len == 0).
Claim_C8 == is_valid(c1) => ClauseLen(c1) = 0

\* C9: two clauses compare equal exactly when they hold the same propositions
\* with the same polarities and the same valid flag, and clauses that compare
\* equal have equal hashes.
Claim_C9 ==
    /\ ClauseEq(c1, c2) <=> (c1.props = c2.props /\ c1.valid = c2.valid)
    /\ ClauseEq(c1, c2) => ClauseHash(c1) = ClauseHash(c2)

(***************************************************************************)
(* Claims about MazeKnowledgeBase                                           *)
(***************************************************************************)
Assignments == [Props -> BOOLEAN]

\* the truth assignment a makes the disjunction c true
Satisfies(a, c) == \E p \in DOMAIN c.props : a[p] = c.props[p]

\* every assignment that satisfies all clauses of cl satisfies q
Entails(cl, q) ==
    \A a \in Assignments : (\A c \in cl : Satisfies(a, c)) => Satisfies(a, q)

UnitQueries == {q \in QueryClauses : ClauseLen(q) = 1}

ProperKB == \A c \in clauses : ~is_valid(c) /\ ~is_empty(c)

\* C1: on a KB told only non-valid, non-empty clauses, ask of a one-proposition
\* query returns True exactly when every assignment satisfying all stored
\* clauses satisfies the query.
Thm_C1 ==
    (op = "ask" /\ ProperKB)
    => \A q \in UnitQueries : answer[q] <=> Entails(clauses, q)

Wit_C1 ==
    /\ op = "ask" /\ ProperKB
    /\ Cardinality(clauses) = 3
    /\ \E a \in Assignments : \A c \in clauses : Satisfies(a, c)
    /\ \E q \in UnitQueries :
        /\ answer[q]
        /\ \A c \in clauses : ClauseLen(c) = 2 \/ DOMAIN c.props # DOMAIN q.props
        /\ \E c \in clauses : ClauseLen(c) = 2

\* C5: a KB that has been told the non-valid clause C answers ask(C) with True,
\* whatever the number of propositions of C.
Claim_C5 ==
    op = "ask" => \A q \in QueryClauses \cap clauses : ClauseLen(q) >= 1 => answer[q]

\* C6: telling a tautological clause V changes no answer: ask(q) on the KB with
\* V equals ask(q) on the KB without it, for every query q.
Claim_C6 ==
    op = "ask"
    => \A V \in {c \in clauses : is_valid(c)} :
         \A q \in QueryClauses : answer[q] = ask(clauses \ {V}, q)

\* C10: a second simplify_self with the same arguments leaves the stored clause
\* set as the first call left it.
Claim_C10 == [][op' = "simplify again" => clauses' = clauses]_vars

(***************************************************************************)
(* Claims about the agent's safety answers                                  *)
(***************************************************************************)
\* the mazes the agent's constructor is right about: when the goal has exactly
\* one neighbour, that neighbour is not a pit
GoalNeighbourSafe ==
    Cardinality(get_cardinal_locs(walls, goal)) = 1
        => get_cardinal_locs(walls, goal) \cap pits = {}

\* C2: in a maze whose goal's only neighbour is not a pit, after the agent is
\* constructed and after every frontier move followed by think on the truthful
\* perception, is_safe_tile(loc) is True only where there is no pit and False
\* only where there is a pit
Claim_C2 ==
    (op \in {"mission", "move"} /\ GoalNeighbourSafe)
        => \A loc \in Grid \ walls :
              /\ is_safe_tile(clauses, loc) = "True" => loc \notin pits
              /\ is_safe_tile(clauses, loc) = "False" => loc \in pits

\* the locations a clause mentions
Mentions(c) == {p[2] : p \in DOMAIN c.props}

\* C11: after simplify_self(known_pits, known_safe) no stored clause of two or
\* more propositions mentions a location of known_pits or known_safe (the
\* agreeing clauses are dropped, the others replaced by their resolvents).
Claim_C11 ==
    op \in {"simplify", "simplify again"}
        => \A c \in clauses :
              ClauseLen(c) >= 2 => Mentions(c) \cap (known_pits \cup known_safe) = {}

\* the two clauses that say exactly one of A, B is a pit
OneOfTwo(A, B) ==
    {PitClause(<<<<A, TRUE>>, <<B, TRUE>>>>), PitClause(<<<<A, FALSE>>, <<B, FALSE>>>>)}

\* C12 (scenario B): when the KB holds the exactly-one-of-two encoding for A and
\* B and the agent records A as safe (safe_tiles gets A, add_Pit tells ~P(A) and
\* simplifies once), the KB then contains the unit clause P(B) and
\* is_safe_tile(B) returns False, whatever the iteration order.
Claim_C12 ==
    [][\A A \in Locs : \A B \in Locs \ {A} :
          (OneOfTwo(A, B) \subseteq clauses /\ op' = "add_Pit" /\ known_safe' = {A})
              => /\ UnitClause(B, TRUE) \in clauses'
                 /\ is_safe_tile(clauses', B) = "False"]_vars

(***************************************************************************)
(* Claims about the agent's think                                           *)
(***************************************************************************)
\* the state is one that a call of think has just left
AfterThink == op \in {"mission", "move"}

\* the tile of the last perception
Tile == og_maze(walls, pits, goal, player_loc)

\* the locations some perception or the constructor has said something about:
\* the explored ones, their neighbours, the goal, and the goal's neighbour when
\* it has exactly one
Constrained ==
    explored \cup UNION {get_cardinal_locs(walls, e) : e \in explored} \cup {goal}
    \cup (IF Cardinality(get_cardinal_locs(walls, goal)) = 1
          THEN get_cardinal_locs(walls, goal) ELSE {})

\* C13 (scenario C): after think on a "." tile at L, L and its playable
\* neighbours are in safe_tiles and is_safe_tile is True for each of them, and
\* is_safe_tile is None for every location nothing has constrained.
Claim_C13 ==
    (AfterThink /\ Tile = ".")
        => /\ \A l \in {player_loc} \cup get_cardinal_locs(walls, player_loc) :
                 l \in safe_tiles /\ is_safe_tile(clauses, l) = "True"
           /\ \A l \in (Box \ walls) \ Constrained : is_safe_tile(clauses, l) = None

\* C14: once the agent is constructed, and after every move of the mission,
\* is_safe_tile(goal) is True; and when the goal has exactly one playable
\* neighbour, is_safe_tile of that neighbour is True before any move is made,
\* whatever the starting tile shows.
Thm_C14 ==
    AfterThink
        => /\ is_safe_tile(clauses, goal) = "True"
           /\ (op = "mission" /\ Cardinality(get_cardinal_locs(walls, goal)) = 1)
                 => \A a \in get_cardinal_locs(walls, goal) :
                       is_safe_tile(clauses, a) = "True"

\* the goal has one neighbour, which is not the start, and the start shows a
\* warning; no move has been made
Wit_C14 ==
    /\ op = "mission"
    /\ Cardinality(get_cardinal_locs(walls, goal)) = 1
    /\ player_loc \notin get_cardinal_locs(walls, goal)
    /\ Tile = "1"
    /\ is_safe_tile(clauses, goal) = "True"

\* C15: after every think call the three certainty sets pit_tiles, safe_tiles
\* and possible_pits are pairwise disjoint.
Claim_C15 ==
    AfterThink
        => /\ pit_tiles \cap safe_tiles = {}
           /\ pit_tiles \cap possible_pits = {}
           /\ safe_tiles \cap possible_pits = {}

\* C16: a certain status is final: a think call after a move removes nothing
\* from pit_tiles or safe_tiles, adds to safe_tiles no location that was in
\* pit_tiles, and adds to pit_tiles no location that was in safe_tiles.
Claim_C16 ==
    [][(AfterThink /\ op' = "move")
          => /\ pit_tiles \subseteq pit_tiles'
             /\ safe_tiles \subseteq safe_tiles'
             /\ (safe_tiles' \ safe_tiles) \cap pit_tiles = {}
             /\ (pit_tiles' \ pit_tiles) \cap safe_tiles = {}]_vars

\* the pits among cands that the clauses cl allow: the subsets S of cands such
\* that every clause is true when exactly the locations of S are pits
Allowed(cl, cands) ==
    {S \in SUBSET cands :
        \A c \in cl : \E p \in DOMAIN c.props : c.props[p] = (p[2] \in S)}

\* the number of pits the tile of the last perception warns of
Warned == get_wrn_num(walls, pits, player_loc)

\* C17: when the first think processes a warning tile "1", "2" or "3" whose
\* n >= 2 neighbours are all undetermined candidates (the goal is not one of
\* them and has not exactly one neighbour), the knowledge base then
\* allows exactly the choices of k pits among the n candidates, k being the
\* number on the tile; and for k = 1 it holds the at-least-one clause and the
\* n(n-1)/2 pairwise at-most-one clauses.
Claim_C17 ==
    (/\ op = "mission"
     /\ Tile \in {"1", "2", "3"}
     /\ Cardinality(get_cardinal_locs(walls, player_loc)) >= 2
     /\ goal \notin get_cardinal_locs(walls, player_loc)
     /\ Cardinality(get_cardinal_locs(walls, goal)) # 1)
        => \E cands \in {get_cardinal_locs(walls, player_loc)} :
              /\ Allowed(clauses, cands) = {S \in SUBSET cands : Cardinality(S) = Warned}
              /\ Tile = "1" =>
                    /\ [props |-> [p \in {<<"P", a>> : a \in cands} |-> TRUE],
                        valid |-> FALSE] \in clauses
                    /\ \A a \in cands : \A b \in cands \ {a} :
                          [props |-> [p \in {<<"P", a>>, <<"P", b>>} |-> FALSE],
                           valid |-> FALSE] \in clauses

\* C18: when the goal is not on the frontier and some frontier location is
\* known safe, think returns a known-safe frontier location that is nearest to
\* the goal among the known-safe frontier locations.
Claim_C18 ==
    (AfterThink /\ goal \notin frontier /\ frontier \cap safe_tiles # {})
        => /\ ret \in frontier \cap safe_tiles
           /\ \A l \in frontier \cap safe_tiles :
                 Manhattan(goal, ret) <= Manhattan(goal, l)

\* C19: whenever the goal is in the frontier when think is called, think
\* returns the goal, whatever the perceived tile and the certainty sets are.
Thm_C19 == (AfterThink /\ goal \in frontier) => ret = goal

\* after a move onto a warning tile, with a pit already recorded, the goal is on
\* the frontier, not alone, and is what think returned
Wit_C19 ==
    /\ op = "move"
    /\ goal \in frontier
    /\ frontier # {goal}
    /\ Tile \in {"1", "2"}
    /\ pit_tiles # {}
    /\ ret = goal

\* C20: in every state with a non-empty frontier, what think returned is a
\* location of the environment's frontier, also when every frontier location
\* has been classified as a pit.
Claim_C20 == (AfterThink /\ frontier # {}) => ret \in frontier

\* the frontier locations the knowledge base says nothing definite about
Undetermined == {l \in frontier : is_safe_tile(clauses, l) = None}

\* C21: when no frontier location is known safe and some are undetermined,
\* think returns an undetermined location that is nearest to the goal among
\* the undetermined ones, whatever order the set is iterated in.
Claim_C21 ==
    (AfterThink /\ goal \notin frontier /\ frontier \cap safe_tiles = {}
        /\ Undetermined # {})
        => /\ ret \in Undetermined
           /\ \A l \in Undetermined : Manhattan(goal, ret) <= Manhattan(goal, l)

\* C22: after every think call, whether or not the goal is on the frontier,
\* every frontier location (all are unvisited) for which ask answers that it is
\* not a pit is in safe_tiles, and every one for which ask answers that it is a
\* pit is in pit_tiles.
Claim_C22 ==
    AfterThink
        => \A l \in frontier :
              /\ ask(clauses, UnitClause(l, FALSE)) => l \in safe_tiles
              /\ ask(clauses, UnitClause(l, TRUE)) => l \in pit_tiles

(***************************************************************************)
(* Claims about scenarios and limits of the knowledge base                  *)
(***************************************************************************)
\* scenario A: the knowledge base holding only (~P(1,1) v P(2,1))
ScenarioA == {PitClause(<<<<<<1, 1>>, FALSE>>, <<<<2, 1>>, TRUE>>>>)}

\* C23 (scenario A): on the knowledge base holding only (~P(1,1) v P(2,1)),
\* ask(P(2,1)) is False; after then telling the unit fact ~P(1,1), ask(P(2,1))
\* is True.
Claim_C23 ==
    op = "ask"
        => /\ clauses = ScenarioA => ~answer[UnitClause(<<2, 1>>, TRUE)]
           /\ clauses = ScenarioA \cup {UnitClause(<<1, 1>>, FALSE)}
                 => answer[UnitClause(<<2, 1>>, TRUE)]

\* C23 as amended: on the knowledge base holding only (~P(1,1) v P(2,1)),
\* ask(P(2,1)) is False; after then telling the unit fact ~P(1,1) it is still
\* False; after telling the unit fact P(1,1) instead it is True.
Thm_C23 ==
    op = "ask"
        => /\ clauses = ScenarioA => ~answer[UnitClause(<<2, 1>>, TRUE)]
           /\ clauses = ScenarioA \cup {UnitClause(<<1, 1>>, FALSE)}
                 => ~answer[UnitClause(<<2, 1>>, TRUE)]
           /\ clauses = ScenarioA \cup {UnitClause(<<1, 1>>, TRUE)}
                 => answer[UnitClause(<<2, 1>>, TRUE)]

Wit_C23 ==
    /\ op = "ask"
    /\ clauses = ScenarioA \cup {UnitClause(<<1, 1>>, TRUE)}
    /\ answer[UnitClause(<<2, 1>>, TRUE)]

\* the stored clause set holds both units of some proposition, or the empty
\* clause
Contradictory ==
    \/ \E loc \in Locs : {UnitClause(loc, TRUE), UnitClause(loc, FALSE)} \subseteq clauses
    \/ MazeClause(<<>>) \in clauses

\* C24: whenever the stored clause set is contradictory (both units of some
\* proposition, or the empty clause told), ask returns True for every query
\* clause.
Claim_C24 ==
    (op = "ask" /\ Contradictory) => \A q \in QueryClauses : answer[q]

\* C25: every call of ask on a finite knowledge base returns: its loop finds
\* the empty clause among the resolvents and answers True, or reaches a pass
\* whose resolvents are all in the working set and answers False.
Thm_C25 == (op = "asking") ~> (op = "answered")

\* an ask has answered False after more than one pass: resolvents had been
\* added to the working set before the pass that found nothing new
Wit_C25 ==
    /\ op = "answered"
    /\ answer = (query :> FALSE)
    /\ new_set # {}
    /\ Cardinality(clauses) = MaxAsked

(***************************************************************************)
(* Claims about what simplification keeps                                   *)
(***************************************************************************)
\* C26: simplify_self condenses the knowledge base: for every stored clause
\* set and every known_pits / known_safe, the number of stored clauses after
\* simplify_self is at most the number before it.
Claim_C26 ==
    [][op' \in {"simplify", "simplify again"}
          => Cardinality(clauses') <= Cardinality(clauses)]_vars

\* C27: the certainty sets never diverge from the knowledge base: after every
\* think call, ask(~P(loc)) returns True for every loc in safe_tiles and
\* ask(P(loc)) returns True for every loc in pit_tiles.
Claim_C27 ==
    AfterThink
        => /\ \A l \in safe_tiles : ask(clauses, UnitClause(l, FALSE))
           /\ \A l \in pit_tiles : ask(clauses, UnitClause(l, TRUE))

\* the true pit layout makes the clause true
TrueInMaze(c) == c.valid \/ \E p \in DOMAIN c.props : c.props[p] = (p[2] \in pits)

\* C28: in a maze whose goal's only neighbour (when it has exactly one) is not a
\* pit, after every sequence of frontier moves with truthful perceptions the
\* agent's KB is consistent: the true pit layout satisfies every stored clause,
\* and the KB never holds both P(loc) and ~P(loc) for one location.
Claim_C28 ==
    (AfterThink /\ GoalNeighbourSafe)
        => /\ \A c \in clauses : TrueInMaze(c)
           /\ \A loc \in Box :
                 ~ ({UnitClause(loc, TRUE), UnitClause(loc, FALSE)} \subseteq clauses)

\* C29: knowledge is never lost: once is_safe_tile(loc) has returned a definite
\* answer (True or False) after a think call, it returns the same answer
\* after every later think call of the mission, whatever order simplify
\* iterates the known locations and the stored clauses in.  Stated for one
\* move and the think that follows it; the later calls follow step by step.
Claim_C29 ==
    [][(AfterThink /\ op' = "move")
          => \A loc \in Box \ walls :
                is_safe_tile(clauses, loc) # None
                    => is_safe_tile(clauses', loc) = is_safe_tile(clauses, loc)]_vars

\* the stored clauses with exactly one proposition
Units(cl) == {c \in cl : ClauseLen(c) = 1}

\* the KB holds P(l) for each known pit and ~P(l) for each known safe location
KnownStored(cl, kp, ks) ==
    /\ \A l \in kp : UnitClause(l, TRUE) \in cl
    /\ \A l \in ks : UnitClause(l, FALSE) \in cl

\* simplification from the clause set before leaves every unit clause in place
\* and, when the units of the known locations are stored, every answer of ask
\* to a single-proposition query as it was
Preserved(before, after, kp, ks) ==
    /\ Units(before) \subseteq after
    /\ KnownStored(before, kp, ks)
          => \A loc \in Locs : \A b \in BOOLEAN :
                ask(after, UnitClause(loc, b)) = ask(before, UnitClause(loc, b))

\* C30: simplification preserves entailment: for every KB that already holds
\* the unit clause P(l) for each l in known_pits and ~P(l) for each l in
\* known_safe (the sets disjoint) and every single-proposition query q, ask(q)
\* returns the same before and after simplify_self(known_pits, known_safe);
\* and simplify_self never removes or changes a stored clause of exactly one
\* proposition.  In add_Pit the KB before is the one with the unit just told.
Thm_C30 ==
    [][/\ op' \in {"simplify", "simplify again"}
          => Preserved(clauses, clauses', known_pits', known_safe')
       /\ op' = "add_Pit"
          => \A l \in known_pits' \cup known_safe' :
                Preserved(tell(clauses, UnitClause(l, l \in known_pits')),
                          clauses', known_pits', known_safe')]_vars

\* simplify_self has run on a KB that held P(a) and ~P(a) v P(b) with a a known
\* pit, and has added the resolvent P(b)
Wit_C30 ==
    /\ op = "simplify"
    /\ \E a \in Locs : \E b \in Locs \ {a} :
          /\ known_pits = {a}
          /\ known_safe = {}
          /\ clauses = {UnitClause(a, TRUE), UnitClause(b, TRUE),
                        PitClause(<<<<a, FALSE>>, <<b, TRUE>>>>)}

====
